---- MODULE Spec2Model ----
(***************************************************************************)
(* The 2048 rules engine of the game2048 Linera application: the bitboard  *)
(* (one u64, sixteen 4-bit tile exponents), the row tables built by        *)
(* Moves::new, the table-driven moves, scoring, terminal detection and     *)
(* tile spawning of Game, and the contract's NewGame / EndGame / MakeMove  *)
(* operations over the per-game records.                                   *)
(*                                                                         *)
(* A u64 is the tuple of its sixteen nibbles, least significant first:     *)
(* N(w, i) is nibble i (bits 4i .. 4i+3), i in 0..15.  Every shift in the  *)
(* source is a multiple of four bits and every mask is made of whole       *)
(* nibbles, so the bit operations act nibble by nibble and shifts move     *)
(* whole nibbles.                                                          *)
(***************************************************************************)
EXTENDS Integers, Sequences, FiniteSets, TLC

\* ------------------------------------------------------------------------
\* Bounds
\* ------------------------------------------------------------------------

\* largest tile exponent the line boards are filled from
MaxExp == 2
\* digests of the string hash range over 0..MaxDigest in calls of Game
MaxDigest == 5
\* ... and over 0..MaxOpDigest in the contract's operations
MaxOpDigest == 1
\* seeds and game ids range over 0..MaxSeed and u16::MAX
MaxSeed == 1
\* block heights range over 0..MaxHeight
MaxHeight == 1
\* operations executed by the contract in one run
MaxOps == 3


\* ------------------------------------------------------------------------
\* 64-bit words
\* ------------------------------------------------------------------------

Nib == 0..15
Idx == 0..15

Bit(a, k) == (a \div (2 ^ k)) % 2

\* nibble i of the word w
N(w, i) == w[i + 1]
\* the word whose nibble i is f[i]
Word(f) == << f[0], f[1], f[2],  f[3],  f[4],  f[5],  f[6],  f[7],
              f[8], f[9], f[10], f[11], f[12], f[13], f[14], f[15] >>

\* a ^ b, a & b, a | b on one nibble, tabulated: XorT[a + 1][b + 1] = a ^ b
XorNib(a, b) == ((Bit(a, 0) + Bit(b, 0)) % 2)
              + ((Bit(a, 1) + Bit(b, 1)) % 2) * 2
              + ((Bit(a, 2) + Bit(b, 2)) % 2) * 4
              + ((Bit(a, 3) + Bit(b, 3)) % 2) * 8
AndNib(a, b) == (Bit(a, 0) * Bit(b, 0))
              + (Bit(a, 1) * Bit(b, 1)) * 2
              + (Bit(a, 2) * Bit(b, 2)) * 4
              + (Bit(a, 3) * Bit(b, 3)) * 8
OrNib(a, b)  == a + b - AndNib(a, b)
XorT == Word([a \in Idx |-> Word([b \in Idx |-> XorNib(a, b)])])
AndT == Word([a \in Idx |-> Word([b \in Idx |-> AndNib(a, b)])])
OrT  == Word([a \in Idx |-> Word([b \in Idx |-> OrNib(a, b)])])

Xor64(a, b) == Word([i \in Idx |-> XorT[N(a, i) + 1][N(b, i) + 1]])
And64(a, b) == Word([i \in Idx |-> AndT[N(a, i) + 1][N(b, i) + 1]])
Or64(a, b)  == Word([i \in Idx |-> OrT[N(a, i) + 1][N(b, i) + 1]])

Zero64 == <<0,0,0,0, 0,0,0,0, 0,0,0,0, 0,0,0,0>>

\* a << bits and a >> bits on a u64, bits a multiple of 4; nibbles shifted
\* past either end are dropped
Shl64(a, bits) == SubSeq(Zero64, 1, bits \div 4) \o SubSeq(a, 1, 16 - bits \div 4)
Shr64(a, bits) == SubSeq(a, bits \div 4 + 1, 16) \o SubSeq(Zero64, 1, bits \div 4)

\* a u64 literal, written as in the source: sixteen hex digits, most
\* significant first
Hex(s) == Word([i \in Idx |-> s[16 - i]])
\* a literal of at most four hex digits (0x000F, 0xFFFF, ...)
Hex16(s) == Word([i \in Idx |-> IF i < 4 THEN s[4 - i] ELSE 0])


\* ------------------------------------------------------------------------
\* moves.rs: masks and the row tables
\* ------------------------------------------------------------------------

ROW_MASK == Hex16(<<15, 15, 15, 15>>)

COL_MASK == Hex(<<0,0,0,15, 0,0,0,15, 0,0,0,15, 0,0,0,15>>)

\* Moves::column_from: (board | board << 12 | board << 24 | board << 36) & COL_MASK,
\* nibble by nibble.  Nibble p of board << 12m is nibble p - 3m of board, and
\* COL_MASK keeps the nibbles 0, 4, 8 and 12.
column_from(board) ==
    LET F == [p \in Idx |->
          LET m0 == N(board, p)
              m1 == IF p >= 3 THEN N(board, p - 3) ELSE 0
              m2 == IF p >= 6 THEN N(board, p - 6) ELSE 0
              m3 == IF p >= 9 THEN N(board, p - 9) ELSE 0
          IN  AndT[OrT[OrT[OrT[m0 + 1][m1 + 1] + 1][m2 + 1] + 1][m3 + 1] + 1][N(COL_MASK, p) + 1]]
    IN  Word(F)

\* the cells of a row: [(row) & 0xF, (row >> 4) & 0xF, (row >> 8) & 0xF, (row >> 12) & 0xF]
\* (line[k] is written L(line, k))
\* ((row >> 4k) & 0xF is nibble k of row)
LineOf(row) == << N(row, 0), N(row, 1), N(row, 2), N(row, 3) >>
L(line, k) == line[k + 1]

\* the search as an `if` instead of a `while`: only cell j is looked at
NextNonZero_Adjacent(line, j) ==
    IF j < 4 /\ L(line, j) # 0 THEN j ELSE 4

\* the inner `while j < 4` search for the next nonzero cell, from j
RECURSIVE NextNonZero(_, _)
NextNonZero(line, j) ==
    IF j < 4
    THEN IF L(line, j) # 0 THEN j ELSE NextNonZero(line, j + 1)
    ELSE j

\* the loop with the cursor left on a merged cell, so that a merged cell
\* merges again in the same pass
RECURSIVE MoveLoop_Cascading(_, _)
MoveLoop_Cascading(line, i) ==
    IF i < 3
    THEN LET j == NextNonZero(line, i + 1) IN
         IF j = 4 THEN line
         ELSE IF L(line, i) = 0
              THEN MoveLoop_Cascading([line EXCEPT ![i + 1] = L(line, j), ![j + 1] = 0], i)
              ELSE IF L(line, i) = L(line, j)
                   THEN MoveLoop_Cascading([line EXCEPT ![i + 1] = IF L(line, i) # 15
                                                                   THEN L(line, i) + 1
                                                                   ELSE L(line, i),
                                                        ![j + 1] = 0], i)
                   ELSE MoveLoop_Cascading(line, i + 1)
    ELSE line

\* the loop without the `continue` after a slide into an empty cell, so
\* that the cursor moves on before the cell is compared with the next one
RECURSIVE MoveLoop_NoRetry(_, _)
MoveLoop_NoRetry(line, i) ==
    IF i < 3
    THEN LET j == NextNonZero(line, i + 1) IN
         IF j = 4 THEN line
         ELSE IF L(line, i) = 0
              THEN MoveLoop_NoRetry([line EXCEPT ![i + 1] = L(line, j), ![j + 1] = 0], i + 1)
              ELSE IF L(line, i) = L(line, j)
                   THEN MoveLoop_NoRetry([line EXCEPT ![i + 1] = IF L(line, i) # 15
                                                                 THEN L(line, i) + 1
                                                                 ELSE L(line, i),
                                                      ![j + 1] = 0], i + 1)
                   ELSE MoveLoop_NoRetry(line, i + 1)
    ELSE line

\* the loop without `line[j] = 0` after a merge, so that the merged-in
\* tile stays where it was
RECURSIVE MoveLoop_KeepMerged(_, _)
MoveLoop_KeepMerged(line, i) ==
    IF i < 3
    THEN LET j == NextNonZero(line, i + 1) IN
         IF j = 4 THEN line
         ELSE IF L(line, i) = 0
              THEN MoveLoop_KeepMerged([line EXCEPT ![i + 1] = L(line, j), ![j + 1] = 0], i)
              ELSE IF L(line, i) = L(line, j)
                   THEN MoveLoop_KeepMerged([line EXCEPT ![i + 1] = IF L(line, i) # 15
                                                                    THEN L(line, i) + 1
                                                                    ELSE L(line, i)], i + 1)
                   ELSE MoveLoop_KeepMerged(line, i + 1)
    ELSE line

\* the outer `while i < 3` loop of Moves::new, from cursor i
RECURSIVE MoveLoop(_, _)
MoveLoop(line, i) ==
    IF i < 3
    THEN LET j == NextNonZero(line, i + 1) IN
         IF j = 4 THEN line
         ELSE IF L(line, i) = 0
              THEN MoveLoop([line EXCEPT ![i + 1] = L(line, j), ![j + 1] = 0], i)
              ELSE IF L(line, i) = L(line, j)
                   THEN MoveLoop([line EXCEPT ![i + 1] = IF L(line, i) # 15
                                                         THEN L(line, i) + 1
                                                         ELSE L(line, i),
                                              ![j + 1] = 0], i + 1)
                   ELSE MoveLoop(line, i + 1)
    ELSE line

\* result = line[0] | line[1] << 4 | line[2] << 8 | line[3] << 12
RowResult(row) ==
    LET line == MoveLoop(LineOf(row), 0) IN
    Word([i \in Idx |-> IF i < 4 THEN L(line, i) ELSE 0])

\* rev_row / rev_res: the nibbles of a 16-bit row in reverse order
\* (row >> 12) & 0x000F | (row >> 4) & 0x00F0 | (row << 4) & 0x0F00 | (row << 12) & 0xF000:
\* nibble 3 comes to nibble 0, 2 to 1, 1 to 2 and 0 to 3; every other nibble is masked off
RevRow(row) ==
    Word([i \in Idx |-> IF i < 4 THEN N(row, 3 - i) ELSE 0])

\* the row score with `1 << tile` in place of `2 << tile`
RECURSIVE RowScoreFrom_OneShift(_, _)
RowScoreFrom_OneShift(line, k) ==
    IF k > 3 THEN 0
    ELSE (IF L(line, k) > 1 THEN (L(line, k) - 1) * (2 ^ L(line, k)) ELSE 0)
         + RowScoreFrom_OneShift(line, k + 1)

\* score of a row: s += (tile - 1) * (2 << tile) for every cell with tile > 1
RECURSIVE RowScoreFrom(_, _)
RowScoreFrom(line, k) ==
    IF k > 3 THEN 0
    ELSE (IF L(line, k) > 1 THEN (L(line, k) - 1) * (2 * (2 ^ L(line, k))) ELSE 0)
         + RowScoreFrom(line, k + 1)

\* The tables, entry by entry.  right_moves and down_moves are written at
\* index row; left_moves and up_moves at index rev_row, i.e. entry x is
\* written by the iteration whose row has rev_row = x.
RightTable(x) == Xor64(x, RowResult(x))
DownTable(x)  == Xor64(column_from(x), column_from(RowResult(x)))
IterationOf(x) == RevRow(x)
\* left_moves[rev_idx] and up_moves[rev_idx] of the iteration of row
LeftOfRow(row) == Xor64(RevRow(row), RevRow(RowResult(row)))
UpOfRow(row)   == Xor64(column_from(RevRow(row)), column_from(RevRow(RowResult(row))))
LeftTable(x)  == LeftOfRow(IterationOf(x))
UpTable(x)    == UpOfRow(IterationOf(x))
ScoreTable(x) == RowScoreFrom(LineOf(x), 0)

\* The tables as built once and read afterwards.  They are tabulated over
\* the rows whose cells are in RowExps; an entry of any other row is
\* computed on the spot, with the same value.
RowExps == (0..(MaxExp + 1)) \cup {11, 14, 15}
Rows == { <<a, b, c, d, 0,0,0,0, 0,0,0,0, 0,0,0,0>> :
            a \in RowExps, b \in RowExps, c \in RowExps, d \in RowExps }
InRows(x) == x[1] \in RowExps /\ x[2] \in RowExps /\ x[3] \in RowExps /\ x[4] \in RowExps
LEFT_MOVES  == [x \in Rows |-> LeftTable(x)]
RIGHT_MOVES == [x \in Rows |-> RightTable(x)]
DOWN_MOVES  == [x \in Rows |-> DownTable(x)]
UP_MOVES    == [x \in Rows |-> UpTable(x)]
SCORES      == [x \in Rows |-> ScoreTable(x)]
\* MOVES.left[idx], MOVES.right[idx], MOVES.down[idx], MOVES.up[idx], MOVES.scores[idx]
MOVES_left(idx)   == IF InRows(idx) THEN LEFT_MOVES[idx]  ELSE LeftTable(idx)
MOVES_right(idx)  == IF InRows(idx) THEN RIGHT_MOVES[idx] ELSE RightTable(idx)
MOVES_down(idx)   == IF InRows(idx) THEN DOWN_MOVES[idx]  ELSE DownTable(idx)
MOVES_up(idx)     == IF InRows(idx) THEN UP_MOVES[idx]    ELSE UpTable(idx)
MOVES_scores(idx) == IF InRows(idx) THEN SCORES[idx]      ELSE ScoreTable(idx)

\* ------------------------------------------------------------------------
\* game.rs: Game
\* ------------------------------------------------------------------------

\* the masks of Game::transpose
MASK_A1 == Hex(<<15,0,15,0, 0,15,0,15, 15,0,15,0, 0,15,0,15>>)
MASK_A2 == Hex(<<0,0,0,0, 15,0,15,0, 0,0,0,0, 15,0,15,0>>)
MASK_A3 == Hex(<<0,15,0,15, 0,0,0,0, 0,15,0,15, 0,0,0,0>>)
MASK_B1 == Hex(<<15,15,0,0, 15,15,0,0, 0,0,15,15, 0,0,15,15>>)
MASK_B2 == Hex(<<0,0,15,15, 0,0,15,15, 0,0,0,0, 0,0,0,0>>)
MASK_B3 == Hex(<<0,0,0,0, 0,0,0,0, 15,15,0,0, 15,15,0,0>>)

\* the first stage with its two shifts exchanged
transpose_a_Exchanged(board) ==
    Or64(Or64(And64(board, MASK_A1), Shr64(And64(board, MASK_A2), 12)),
         Shl64(And64(board, MASK_A3), 12))

\* a = a1 | (a2 << 12) | (a3 >> 12)
transpose_a(board) ==
    Or64(Or64(And64(board, MASK_A1), Shl64(And64(board, MASK_A2), 12)),
         Shr64(And64(board, MASK_A3), 12))
\* b1 | (b2 >> 24) | (b3 << 24)
transpose_b(a) ==
    Or64(Or64(And64(a, MASK_B1), Shr64(And64(a, MASK_B2), 24)),
         Shl64(And64(a, MASK_B3), 24))
transpose(board) == transpose_b(transpose_a(board))

\* (w >> bits) & ROW_MASK
RowAt(w, bits) == And64(Shr64(w, bits), ROW_MASK)

\* the four `result ^= ...` of a move, result starting as board
up_lanes(board, transposed) ==
    Xor64(Xor64(Xor64(Xor64(board,
          MOVES_up(RowAt(transposed, 0))),
          Shl64(MOVES_up(RowAt(transposed, 16)), 4)),
          Shl64(MOVES_up(RowAt(transposed, 32)), 8)),
          Shl64(MOVES_up(RowAt(transposed, 48)), 12))
move_up(board) == up_lanes(board, transpose(board))

down_lanes(board, transposed) ==
    Xor64(Xor64(Xor64(Xor64(board,
          MOVES_down(RowAt(transposed, 0))),
          Shl64(MOVES_down(RowAt(transposed, 16)), 4)),
          Shl64(MOVES_down(RowAt(transposed, 32)), 8)),
          Shl64(MOVES_down(RowAt(transposed, 48)), 12))
move_down(board) == down_lanes(board, transpose(board))

move_right(board) ==
    Xor64(Xor64(Xor64(Xor64(board,
          MOVES_right(RowAt(board, 0))),
          Shl64(MOVES_right(RowAt(board, 16)), 16)),
          Shl64(MOVES_right(RowAt(board, 32)), 32)),
          Shl64(MOVES_right(RowAt(board, 48)), 48))

move_left(board) ==
    Xor64(Xor64(Xor64(Xor64(board,
          MOVES_left(RowAt(board, 0))),
          Shl64(MOVES_left(RowAt(board, 16)), 16)),
          Shl64(MOVES_left(RowAt(board, 32)), 32)),
          Shl64(MOVES_left(RowAt(board, 48)), 48))

Direction == {"Up", "Down", "Left", "Right"}

\* the `match direction` of Game::execute
MoveDir(board, direction) ==
    CASE direction = "Left"  -> move_left(board)
      [] direction = "Right" -> move_right(board)
      [] direction = "Down"  -> move_down(board)
      [] direction = "Up"    -> move_up(board)

\* the tile at nibble i: (board >> (i * 4)) & 0xF
TileAt(board, i) == N(board, i)

\* the comparison of the board with the four moved boards
no_move_left(board, left, right, up, down) ==
    IF board = left /\ board = right /\ board = up /\ board = down
    THEN TRUE
    ELSE FALSE

\* the terminal test without the scan for a 2048 tile
is_ended_MovesOnly(board) ==
    no_move_left(board, move_left(board), move_right(board),
                 move_up(board), move_down(board))

is_ended(board) ==
    IF \E i \in 0..15 : TileAt(board, i) = 11
    THEN TRUE
    ELSE no_move_left(board, move_left(board), move_right(board),
                      move_up(board), move_down(board))

count_empty(board) == Cardinality({i \in 0..15 : TileAt(board, i) = 0})

\* table_helper(board, MOVES.scores)
score(board) ==
    MOVES_scores(RowAt(board, 0)) + MOVES_scores(RowAt(board, 16))
  + MOVES_scores(RowAt(board, 32)) + MOVES_scores(RowAt(board, 48))


\* ------------------------------------------------------------------------
\* random.rs: gen_range, and the values a call can end with
\* ------------------------------------------------------------------------

U16_MAX == 65535

\* n.to_string(): the decimal digits of n, most significant first
DigitChar == <<"0", "1", "2", "3", "4", "5", "6", "7", "8", "9">>
RECURSIVE to_string(_)
to_string(n) ==
    IF n < 10 THEN <<DigitChar[n + 1]>>
    ELSE Append(to_string(n \div 10), DigitChar[(n % 10) + 1])

\* A call either returns a value or panics.
Ok(v)      == [panic |-> "none", val |-> v]
Panic(why) == [panic |-> why, val |-> 0]

\* gen_range(input, min, max), given the digest hasher.finish() of input.
\* `seed % range` with range = 0 panics (remainder with a divisor of zero).
gen_range(digest, min, max) ==
    LET range == max - min IN
    IF range = 0
    THEN Panic("rem_by_zero")
    ELSE Ok(((digest % range) % 65536) + min)

\* ------------------------------------------------------------------------
\* game.rs: tile, spawn_tile, new, execute
\* ------------------------------------------------------------------------

\* the u64 with value v (0..15) in nibble 0
Lit(v) == Word([i \in Idx |-> IF i = 0 THEN v ELSE 0])

\* Game::tile(seed), given the digest of seed.to_string()
tile(digest) ==
    IF gen_range(digest, 0, 10).val = 10 THEN Lit(2) ELSE Lit(1)

\* the inner `while (tmp & 0xF) != 0 { tmp >>= 4; t <<= 4 }` of spawn_tile:
\* the pair <<tmp, t>> it ends with
RECURSIVE SkipTiles(_, _)
SkipTiles(tmp, t) ==
    IF N(tmp, 0) # 0
    THEN SkipTiles(Shr64(tmp, 4), Shl64(t, 4))
    ELSE <<tmp, t>>

\* the outer `loop` of spawn_tile
RECURSIVE SpawnLoop(_, _, _)
SpawnLoop(tmp, idx, t) ==
    LET s == SkipTiles(tmp, t) IN
    IF idx = 0
    THEN s[2]
    ELSE SpawnLoop(Shr64(s[1], 4), idx - 1, Shl64(s[2], 4))

\* Game::spawn_tile(board, seed), given the digest of seed.to_string()
spawn_tile(board, digest) ==
    LET idx == gen_range(digest, 0, count_empty(board)) IN
    IF idx.panic # "none"
    THEN idx
    ELSE Ok(SpawnLoop(board, idx.val, tile(digest)))

\* the spawn without the comparison of the moved board with the board
spawn_if_moved_Always(board, digest, current_board) ==
    LET spawned == spawn_tile(current_board, digest) IN
    IF spawned.panic # "none"
    THEN [panic |-> spawned.panic, val |-> Zero64, moved |-> current_board]
    ELSE [panic |-> "none", val |-> Or64(current_board, spawned.val),
          moved |-> current_board]

\* the `if current_board != self.board { current_board |= spawn_tile(..) }`
\* of Game::execute, current_board being the board after the `match`
spawn_if_moved(board, digest, current_board) ==
    IF current_board # board
    THEN LET spawned == spawn_tile(current_board, digest) IN
         IF spawned.panic # "none"
         THEN [panic |-> spawned.panic, val |-> Zero64, moved |-> current_board]
         ELSE [panic |-> "none", val |-> Or64(current_board, spawned.val),
               moved |-> current_board]
    ELSE [panic |-> "none", val |-> current_board, moved |-> current_board]

\* Game::execute on Game { board, seed }, given the digest of seed.to_string().
\* Next to the returned board (val) the result keeps `moved`, the value of
\* current_board after the `match`: spawn_tile, and with it the hash of the
\* seed, is evaluated exactly when moved differs from board.
execute(board, digest, direction) ==
    spawn_if_moved(board, digest, MoveDir(board, direction))

\* game.seed + 1 on a u16: past 65535 the addition panics when the build
\* checks overflow and wraps to 0 when it does not
SeedPlusOne(seed, overflow_checks) ==
    IF seed + 1 > U16_MAX
    THEN IF overflow_checks THEN Panic("add_overflow") ELSE Ok((seed + 1) % 65536)
    ELSE Ok(seed + 1)

\* Game::new(seed), given the digests of seed.to_string() and of
\* (seed + 1).to_string()
new(seed, digest1, digest2, overflow_checks) ==
    LET first == spawn_tile(Zero64, digest1) IN
    IF first.panic # "none" THEN first
    ELSE LET board1 == Or64(Zero64, first.val)
             next   == SeedPlusOne(seed, overflow_checks) IN
         IF next.panic # "none" THEN next
         ELSE LET second == spawn_tile(board1, digest2) IN
              IF second.panic # "none" THEN second
              ELSE Ok([board |-> Or64(board1, second.val), seed |-> seed])


\* ------------------------------------------------------------------------
\* Input sets
\* ------------------------------------------------------------------------

Digests    == 0..MaxDigest
OpDigests  == 0..MaxOpDigest
SmallSeeds == 0..MaxSeed
Seeds      == SmallSeeds \cup {U16_MAX}
\* the game ids of the operations: the seeds, and the seeds get_seed derives
GameIds    == Seeds \cup OpDigests
Heights    == 0..MaxHeight

\* board with cell i set to v
PutTile(board, i, v) == [board EXCEPT ![i + 1] = v]

\* boards written out in the source's documentation and tests
DocBoards ==
    { Zero64,
      Hex(<<0,0,0,0, 0,0,0,0, 0,0,0,0, 2,2,1,1>>),
      Hex(<<0,0,0,0, 0,0,0,0, 0,0,0,0, 0,0,1,1>>),
      Hex(<<0,0,1,1, 0,0,0,0, 0,0,0,0, 0,0,1,1>>),
      Hex(<<0,0,0,0, 0,0,0,0, 0,0,2,2, 1,1,0,0>>),
      Hex(<<0,0,0,0, 0,0,0,0, 0,0,0,0, 0,11,0,0>>),
      Hex(<<0,0,0,0, 0,0,0,0, 0,0,0,0, 0,0,0,2>>),
      Hex(<<0,0,0,0, 0,0,0,0, 0,0,0,0, 0,0,0,3>>),
      Hex(<<15,14,13,12, 11,10,9,8, 7,6,5,4, 3,2,1,0>>) }

\* boards with one tile, anywhere
OneTileBoards ==
    { PutTile(Zero64, c, v) : c \in Idx, v \in (1..MaxExp) \cup {11, 15} }

\* boards with one row or one column filled from 0..MaxExp
LineBoards ==
    { Word([i \in Idx |-> IF i \div 4 = k THEN f[i % 4] ELSE 0]) :
        k \in 0..3, f \in [0..3 -> 0..MaxExp] }
    \cup
    { Word([i \in Idx |-> IF i % 4 = k THEN f[i \div 4] ELSE 0]) :
        k \in 0..3, f \in [0..3 -> 0..MaxExp] }

\* boards made of four rows out of a few rows
DenseRows == { <<1,2,1,2>>, <<2,1,2,1>>, <<15,15,14,14>>, <<0,0,0,0>> }
DenseBoards ==
    { Word([i \in Idx |-> r[(i \div 4) + 1][(i % 4) + 1]]) : r \in [1..4 -> DenseRows] }

Boards == DocBoards \cup OneTileBoards \cup LineBoards \cup DenseBoards
\* the boards of the calls that also draw a digest
SpawnBoards == DocBoards \cup OneTileBoards \cup DenseBoards

\* ------------------------------------------------------------------------
\* State
\* ------------------------------------------------------------------------

VARIABLES
    games,         \* Game2048.games: game id -> GameState
    sent,          \* the Message::Game messages sent, in order
    block_height,  \* runtime.block_height()
    nops,          \* operations executed so far
    hashed,        \* the string hash, as far as it has been evaluated: input -> digest
    call,          \* the last call or operation and its arguments
    ret            \* what it returned

vars == <<games, sent, block_height, nops, hashed, call, ret>>

\* the hash is a function of its input: a digest agrees with what is known
Agrees(h, input, digest) == input \in DOMAIN h => h[input] = digest
\* the digests of input that agree with what is known, out of D
Hash(h, input, D) == IF input \in DOMAIN h THEN {h[input]} ELSE D
Learn(h, input, digest)  == IF input \in DOMAIN h THEN h ELSE (input :> digest) @@ h

NoCall == [op |-> "none", board |-> Zero64, seed |-> 0, game_id |-> 0, direction |-> "Up"]
Call(op, board, seed, game_id, direction) ==
    [op |-> op, board |-> board, seed |-> seed, game_id |-> game_id, direction |-> direction]

\* ------------------------------------------------------------------------
\* Calls of the functions of Game, each on a fresh Game
\* ------------------------------------------------------------------------

InitGame ==
    /\ games = << >>
    /\ sent = << >>
    /\ block_height = 0
    /\ nops = 0
    /\ hashed = << >>
    /\ call = NoCall
    /\ ret = Ok(0)

\* no call has been made yet
Idle == call.op = "none"

CallMove(b, d) ==
    /\ Idle
    /\ call' = Call("move", b, 0, 0, d)
    /\ ret' = Ok(MoveDir(b, d))
    /\ UNCHANGED <<games, sent, block_height, nops, hashed>>

CallTranspose(b) ==
    /\ Idle
    /\ call' = Call("transpose", b, 0, 0, "Up")
    /\ ret' = Ok(transpose(b))
    /\ UNCHANGED <<games, sent, block_height, nops, hashed>>

CallIsEnded(b) ==
    /\ Idle
    /\ call' = Call("is_ended", b, 0, 0, "Up")
    /\ ret' = Ok(is_ended(b))
    /\ UNCHANGED <<games, sent, block_height, nops, hashed>>

CallScore(b) ==
    /\ Idle
    /\ call' = Call("score", b, 0, 0, "Up")
    /\ ret' = Ok(score(b))
    /\ UNCHANGED <<games, sent, block_height, nops, hashed>>

CallTile(seed, digest) ==
    /\ Idle
    /\ call' = Call("tile", Zero64, seed, 0, "Up")
    /\ hashed' = Learn(hashed, to_string(seed), digest)
    /\ ret' = Ok(tile(digest))
    /\ UNCHANGED <<games, sent, block_height, nops>>

CallSpawnTile(b, seed, digest) ==
    /\ Idle
    /\ call' = Call("spawn_tile", b, seed, 0, "Up")
    /\ hashed' = Learn(hashed, to_string(seed), digest)
    /\ ret' = spawn_tile(b, digest)
    /\ UNCHANGED <<games, sent, block_height, nops>>

CallNew(seed, digest1, digest2, overflow_checks) ==
    /\ Idle
    /\ call' = Call("new", Zero64, seed, 0, "Up")
    /\ LET next == SeedPlusOne(seed, overflow_checks)
           h1   == Learn(hashed, to_string(seed), digest1) IN
       IF next.panic # "none"
       THEN /\ digest2 = 0
            /\ hashed' = h1
       ELSE /\ Agrees(h1, to_string(next.val), digest2)
            /\ hashed' = Learn(h1, to_string(next.val), digest2)
    /\ ret' = new(seed, digest1, digest2, overflow_checks)
    /\ UNCHANGED <<games, sent, block_height, nops>>

CallExecute(b, seed, d, digest) ==
    /\ Idle
    /\ call' = Call("execute", b, seed, 0, d)
    /\ \E r \in {execute(b, digest, d)} :
       /\ ret' = r
       /\ IF r.moved # b
          THEN hashed' = Learn(hashed, to_string(seed), digest)
          ELSE digest = 0 /\ hashed' = hashed
    /\ UNCHANGED <<games, sent, block_height, nops>>

\* Each Game is called once; the guard is repeated in front of the choice of
\* the arguments.
NextGame ==
    \/ Idle /\ \E b \in Boards, d \in Direction : CallMove(b, d)
    \/ Idle /\ \E b \in Boards : CallTranspose(b)
    \/ Idle /\ \E b \in Boards : CallIsEnded(b)
    \/ Idle /\ \E b \in Boards : CallScore(b)
    \/ Idle /\ \E seed \in Seeds, digest \in Digests : CallTile(seed, digest)
    \/ Idle /\ \E b \in SpawnBoards, seed \in SmallSeeds, digest \in Digests :
                  CallSpawnTile(b, seed, digest)
    \/ Idle /\ \E seed \in Seeds, digest1 \in Digests, digest2 \in Digests, oc \in BOOLEAN :
                  CallNew(seed, digest1, digest2, oc)
    \/ Idle /\ \E b \in SpawnBoards, seed \in SmallSeeds, d \in Direction, digest \in Digests :
                  CallExecute(b, seed, d, digest)

SpecGame == InitGame /\ [][NextGame]_vars


\* ------------------------------------------------------------------------
\* contract.rs: Game2048Contract
\* ------------------------------------------------------------------------

\* a GameState view as load_entry_mut creates it
DefaultGameState == [game_id |-> 0, board |-> Zero64, score |-> 0, is_ended |-> FALSE]

\* games.load_entry_mut(&key): the entry is created when it is missing
load_entry_mut(g, key) == IF key \in DOMAIN g THEN g ELSE (key :> DefaultGameState) @@ g

\* get_seed(init_seed), given the digest of block_height.to_string()
get_seed(init_seed, digest) ==
    IF init_seed # 0
    THEN init_seed
    ELSE gen_range(digest, 0, U16_MAX).val

\* the message send_message prepares
GameMessage(game_id, board, sc, ended) ==
    [game_id |-> game_id, board |-> board, score |-> sc, is_ended |-> ended]

\* instantiate(seed): load_entry_or_insert leaves a default entry for the id
Init ==
    /\ \E seed \in SmallSeeds : games = load_entry_mut(<< >>, seed)
    /\ sent = << >>
    /\ block_height = 0
    /\ nops = 0
    /\ hashed = << >>
    /\ call = NoCall
    /\ ret = Ok(0)

\* Operation::NewGame { seed }.  A panic aborts the operation and none of
\* its changes to the state is kept.
NewGame(init_seed) ==
    LET hs == to_string(block_height) IN
    \E digestH \in (IF init_seed # 0 THEN {0} ELSE Hash(hashed, hs, OpDigests)) :
    LET h0   == IF init_seed # 0 THEN hashed ELSE Learn(hashed, hs, digestH)
        seed == get_seed(init_seed, digestH)
    IN
    \E digest1 \in Hash(h0, to_string(seed), OpDigests),
       overflow_checks \in (IF seed + 1 > U16_MAX THEN BOOLEAN ELSE {FALSE}) :
    LET h1   == Learn(h0, to_string(seed), digest1)
        next == SeedPlusOne(seed, overflow_checks)
    IN
    \E digest2 \in (IF next.panic # "none" THEN {0}
                    ELSE Hash(h1, to_string(next.val), OpDigests)) :
    LET h2   == IF next.panic # "none" THEN h1 ELSE Learn(h1, to_string(next.val), digest2)
        game == new(seed, digest1, digest2, overflow_checks)
    IN  /\ hashed' = h2
        /\ call' = Call("NewGame", Zero64, init_seed, seed, "Up")
        /\ IF game.panic # "none"
           THEN /\ ret' = Panic(game.panic)
                /\ UNCHANGED <<games, sent>>
           ELSE LET new_board == game.val.board IN
                /\ ret' = Ok("done")
                /\ games' = [load_entry_mut(games, seed) EXCEPT ![seed].game_id = seed,
                                                                ![seed].board = new_board]
                /\ sent' = Append(sent, GameMessage(seed, new_board, 0, FALSE))
        /\ nops' = nops + 1
        /\ UNCHANGED block_height

\* Operation::EndGame { game_id }
EndGame(game_id) ==
    /\ games' = [load_entry_mut(games, game_id) EXCEPT ![game_id].is_ended = TRUE]
    /\ call' = Call("EndGame", Zero64, 0, game_id, "Up")
    /\ ret' = Ok("done")
    /\ nops' = nops + 1
    /\ UNCHANGED <<sent, block_height, hashed>>

\* the guard without the read of the flag
not_ended_Unchecked(board) == TRUE

\* `let is_ended = board.is_ended.get(); if !is_ended`
not_ended(board) == ~board.is_ended

\* Operation::MakeMove { game_id, direction }
MakeMove(game_id, direction) ==
    LET hs    == to_string(block_height)
        gs    == load_entry_mut(games, game_id)
        board == gs[game_id]
    IN
    \E digestH \in Hash(hashed, hs, OpDigests) :
    LET h0   == Learn(hashed, hs, digestH)
        seed == get_seed(0, digestH)
    IN  /\ call' = Call("MakeMove", Zero64, 0, game_id, direction)
        /\ nops' = nops + 1
        /\ UNCHANGED block_height
        /\ IF not_ended(board)
           THEN \E digestS \in Hash(h0, to_string(seed), OpDigests) :
                \E r \in {execute(board.board, digestS, direction)} :
                /\ IF r.moved # board.board
                   THEN hashed' = Learn(h0, to_string(seed), digestS)
                   ELSE /\ \A x \in Hash(h0, to_string(seed), OpDigests) : digestS <= x
                        /\ hashed' = h0
                /\ IF r.panic # "none"
                   THEN /\ ret' = Panic(r.panic)
                        /\ UNCHANGED <<games, sent>>
                   ELSE \E ended \in {is_ended(r.val)}, sc \in {score(r.val)} :
                        /\ ret' = Ok("done")
                        /\ games' = [gs EXCEPT ![game_id].board = r.val,
                                               ![game_id].score = sc,
                                               ![game_id].is_ended = IF ended THEN TRUE ELSE @]
                        /\ sent' = Append(sent, GameMessage(game_id, r.val, sc, ended))
           ELSE /\ hashed' = h0
                /\ ret' = Ok("ignored")
                /\ games' = gs
                /\ UNCHANGED sent

\* the chain moves on to the next block
NextBlock ==
    /\ block_height < MaxHeight
    /\ block_height' = block_height + 1
    /\ UNCHANGED <<games, sent, nops, hashed, call, ret>>

\* the operations of a run stop after MaxOps
Bounded == nops < MaxOps

Next ==
    \/ Bounded /\ \E init_seed \in Seeds : NewGame(init_seed)
    \/ Bounded /\ \E game_id \in GameIds : EndGame(game_id)
    \/ Bounded /\ \E game_id \in GameIds, direction \in Direction : MakeMove(game_id, direction)
    \/ NextBlock

Spec == Init /\ [][Next]_vars

\* ------------------------------------------------------------------------
\* Properties
\* ------------------------------------------------------------------------

\* A move cell by cell.  The cells of lane k (a row for Left and Right, a
\* column for Up and Down), listed from the side the move is directed to:
\* Right is toward nibble 0 of a row and Left toward nibble 3, Down is toward
\* the row of nibbles 0..3 and Up toward the row of nibbles 12..15.
CellsFrom(d, k) ==
    CASE d = "Right" -> << 4 * k,     4 * k + 1, 4 * k + 2, 4 * k + 3 >>
      [] d = "Left"  -> << 4 * k + 3, 4 * k + 2, 4 * k + 1, 4 * k     >>
      [] d = "Down"  -> << k,         4 + k,     8 + k,     12 + k    >>
      [] d = "Up"    -> << 12 + k,    8 + k,     4 + k,     k         >>

\* the tiles of a sequence of cells, in order, without the empty cells
RECURSIVE Slide(_)
Slide(cells) ==
    IF cells = << >> THEN << >>
    ELSE IF Head(cells) = 0 THEN Slide(Tail(cells))
         ELSE <<Head(cells)>> \o Slide(Tail(cells))

\* each pair of equal neighbours merged once, from the front
RECURSIVE MergePairs(_)
MergePairs(tiles) ==
    IF Len(tiles) < 2 THEN tiles
    ELSE IF tiles[1] = tiles[2]
         THEN <<IF tiles[1] < 15 THEN tiles[1] + 1 ELSE 15>> \o MergePairs(Tail(Tail(tiles)))
         ELSE <<tiles[1]>> \o MergePairs(Tail(tiles))

\* lane k of the board after the move, listed from the side d
RefLane(b, d, k) ==
    LET cells == CellsFrom(d, k)
        tiles == MergePairs(Slide(<< N(b, cells[1]), N(b, cells[2]), N(b, cells[3]), N(b, cells[4]) >>))
    IN  [p \in 1..4 |-> IF p <= Len(tiles) THEN tiles[p] ELSE 0]

RefMove(b, d) ==
    LET lanes == << RefLane(b, d, 0), RefLane(b, d, 1), RefLane(b, d, 2), RefLane(b, d, 3) >>
        lane(i) == IF d \in {"Left", "Right"} THEN i \div 4 ELSE i % 4
        pos(i)  == CASE d = "Right" -> i % 4
                     [] d = "Left"  -> 3 - (i % 4)
                     [] d = "Down"  -> i \div 4
                     [] d = "Up"    -> 3 - (i \div 4)
        F       == [i \in Idx |-> lanes[lane(i) + 1][pos(i) + 1]]
    IN  Word(F)

\* C1: for every board and direction the table-driven move returns the board
\* of the cell-by-cell reference: every row (Left, Right) or column (Up, Down)
\* slid toward the direction, each pair of equal neighbours merged once from
\* that side into exponent + 1, capped at 15, without a second merge.
C1_MoveIsReference ==
    call.op = "move" => ret = Ok(RefMove(call.board, call.direction))

\* 0x2211 right -> 0x0032
C1_Witness ==
    /\ call.op = "move"
    /\ call.direction = "Right"
    /\ call.board = Hex(<<0,0,0,0, 0,0,0,0, 0,0,0,0, 2,2,1,1>>)
    /\ ret.val = Hex(<<0,0,0,0, 0,0,0,0, 0,0,0,0, 0,0,3,2>>)

\* C2: a MakeMove on a game whose is_ended flag is true changes nothing of
\* the game: its stored board, score and is_ended flag are as before, no
\* tile is spawned and no Game message is sent.
C2_MoveOnEndedGameRejected ==
    [][ ( /\ nops' = nops + 1
          /\ call'.op = "MakeMove"
          /\ call'.game_id \in DOMAIN games
          /\ games[call'.game_id].is_ended )
        => ( /\ games'[call'.game_id] = games[call'.game_id]
             /\ sent' = sent ) ]_vars

\* a MakeMove has just been refused on an ended game
C2_Witness ==
    /\ call.op = "MakeMove"
    /\ ret = Ok("ignored")
    /\ games[call.game_id].is_ended

\* C3: once a game record has is_ended = true, no operation changes its
\* stored board and its is_ended flag stays true.
C3_EndedGameImmutable ==
    [][ \A id \in DOMAIN games :
          games[id].is_ended =>
             /\ id \in DOMAIN games'
             /\ games'[id].is_ended
             /\ games'[id].board = games[id].board ]_vars

\* C4: is_ended is false for the all-zero board.
C4_EmptyBoardNotEnded ==
    (call.op = "is_ended" /\ call.board = Zero64) => ret = Ok(FALSE)

C6_FullBoardSpawnRefused ==
    (call.op = "spawn_tile" /\ count_empty(call.board) = 0) => ret.panic # "rem_by_zero"

\* C7: of the ten values a draw over [0, 10) can take, Game::tile returns
\* exponent 2 for exactly one and exponent 1 for the other nine.
C7_TileFourOnceInTen ==
    call.op = "tile" =>
        /\ Cardinality({draw \in 0..9 : tile(draw) = Lit(2)}) = 1
        /\ Cardinality({draw \in 0..9 : tile(draw) = Lit(1)}) = 9

C9_NewCompletesWithTwoTiles ==
    call.op = "new" =>
        /\ ret.panic = "none"
        /\ ret.val.seed = call.seed
        /\ Cardinality({i \in Idx : N(ret.val.board, i) # 0}) = 2
        /\ \A i \in Idx : N(ret.val.board, i) \in {0, 1, 2}

\* C10: transpose moves the nibble at index 4i+j to index 4j+i, and is its
\* own inverse.
C10_TransposeSwapsAndInverts ==
    call.op = "transpose" =>
        /\ \A i \in 0..3, j \in 0..3 : N(ret.val, 4 * j + i) = N(call.board, 4 * i + j)
        /\ transpose(ret.val) = call.board

\* transpose(0xFEDCBA9876543210) = 0xFB73EA62D951C840
C10_Witness ==
    /\ call.op = "transpose"
    /\ call.board = Hex(<<15,14,13,12, 11,10,9,8, 7,6,5,4, 3,2,1,0>>)
    /\ ret.val = Hex(<<15,11,7,3, 14,10,6,2, 13,9,5,1, 12,8,4,0>>)

\* C11 as stated: a move applied a second time, with no spawn in between,
\* returns the board of the first application.
C11_MoveIdempotent ==
    call.op = "move" => MoveDir(ret.val, call.direction) = ret.val

\* C11: a move that merged no pair (the moved board has as many tiles as
\* the board) is idempotent: applied a second time, with no spawn in
\* between, it returns the board of the first application.
C11_SlideIdempotent ==
    (call.op = "move" /\ count_empty(ret.val) = count_empty(call.board))
        => MoveDir(ret.val, call.direction) = ret.val

\* a move that changed the board without a merge
C11_Witness ==
    /\ call.op = "move"
    /\ ret.val # call.board
    /\ count_empty(ret.val) = count_empty(call.board)
    /\ MoveDir(ret.val, call.direction) = ret.val

\* lane k of the board, listed from the side direction d moves to, has no
\* empty cell before a tile
CompactLane(board, d, k) ==
    \A i \in 1..3 :
        N(board, CellsFrom(d, k)[i]) = 0 => N(board, CellsFrom(d, k)[i + 1]) = 0

Compact(board, d) == \A k \in 0..3 : CompactLane(board, d, k)

\* C12: after a move, in every row (Left, Right) or column (Up, Down) of
\* the moved board no empty cell lies between the edge moved to and a tile.
C12_MoveCompacts ==
    call.op = "move" => Compact(ret.val, call.direction)

\* a move of a board that had an empty cell before a tile
C12_Witness ==
    /\ call.op = "move"
    /\ ~Compact(call.board, call.direction)
    /\ Compact(ret.val, call.direction)

\* (c-1)*(2<<c) for a cell of exponent c > 1, and 0 for exponents 0 and 1
CellScore(c) == IF c > 1 THEN (c - 1) * (2 * 2 ^ c) ELSE 0

\* the sum of the cell scores of the 16-bit row slice r of the board
RowSliceScore(board, r) ==
    CellScore(N(board, 4 * r))     + CellScore(N(board, 4 * r + 1))
  + CellScore(N(board, 4 * r + 2)) + CellScore(N(board, 4 * r + 3))

TileAndMerges(c) == IF c > 1 THEN (c - 1) * 2 ^ c ELSE 0

\* C14: the score of a board whose only tiles are in one row is the sum
\* over its tiles of the tile's value plus the values of the intermediate
\* merged tiles; row 0x0002 scores 4 and row 0x0003 scores 16.
C14_RowScoreIsTilesAndMerges ==
    (call.op = "score" /\ RowAt(call.board, 0) = call.board) =>
        ret.val = TileAndMerges(N(call.board, 0)) + TileAndMerges(N(call.board, 1))
                + TileAndMerges(N(call.board, 2)) + TileAndMerges(N(call.board, 3))

\* the boards MakeMove { game_id, direction } stores for a game whose
\* board is b when it executes at block height h, for every digest the
\* hash function may give, h being what is known of it
StoredAtHeight(h, b, direction, height) ==
    { execute(b, digestS, direction).val :
        digestS \in UNION { Hash(Learn(h, to_string(height), digestH),
                                  to_string(get_seed(0, digestH)), OpDigests) :
                              digestH \in Hash(h, to_string(height), OpDigests) } }

\* C15: the board MakeMove stores is a function of the game's board, the
\* direction and the game's seed only: the same move of the same game
\* stores the same board at whatever block height it executes.
C15_ReplayableFromGameSeed ==
    [][ (call'.op = "MakeMove" /\ nops' = nops + 1 /\ ret' = Ok("done")) =>
            \A height \in Heights :
                StoredAtHeight(hashed', load_entry_mut(games, call'.game_id)[call'.game_id].board,
                               call'.direction, height)
                    = { games'[call'.game_id].board } ]_vars

\* C16: a move that changes the board leaves at least one empty cell, so
\* the spawn of Game::execute, and the two spawns of Game::new, never draw
\* from an empty range, and the spawned tile fills one of the empty cells
\* of the moved board.
C16_SpawnPreconditionOnMovePath ==
    /\ (call.op = "move" /\ ret.val # call.board) => count_empty(ret.val) >= 1
    /\ call.op = "execute" =>
          /\ ret.panic # "rem_by_zero"
          /\ ret.moved # call.board =>
                /\ count_empty(ret.moved) >= 1
                /\ count_empty(ret.val) = count_empty(ret.moved) - 1
    /\ call.op = "new" => ret.panic # "rem_by_zero"

\* a full board that a move changes, and the spawn into the moved board
C16_Witness ==
    /\ call.op = "execute"
    /\ count_empty(call.board) = 0
    /\ ret.moved # call.board
    /\ ret.panic = "none"
    /\ count_empty(ret.val) = count_empty(ret.moved) - 1

\* C17: in every reachable state of the contract the stored score of each
\* game record is the score of the stored board of that record.
C17_StoredScoreIsScoreOfBoard ==
    \A game_id \in DOMAIN games :
        games[game_id].score = score(games[game_id].board)

====
